---- MODULE Spec2Model ----
(***************************************************************************)
(* A model of snapper-rollback.py: one invocation of main(), step by step. *)
(* The state is the btrfs volume (what subvolume sits at which path, the   *)
(* default subvolume, the snapshot directories and their info.xml), the    *)
(* script's arguments and locals, its position, and its exit status.       *)
(* Every library call that can fail draws its outcome from the exceptions  *)
(* that call can raise.                                                    *)
(***************************************************************************)
EXTENDS Integers, Sequences, FiniteSets, TLC

VARIABLES
    dry_run,            \* args.dry_run
    confirmation,       \* main: what the operator typed at the prompt
    snap_id,            \* args.snap_id, a directory name
    pc,                 \* the statement main() is at
    exit_status,        \* -1 while running, then the process exit status
    mp,                 \* the mountpoint: "absent", "dir" or "mounted"
    snapshots_exists,   \* whether /.snapshots can be listed
    dirs,               \* names of the directories in the snapshots subvolume
    descs,              \* dir name -> content of <dir>/info.xml, where present
    subAt,              \* dir name -> subvolume at <dir>/snapshot, where present
    mainAt,             \* subvolume at the main path (NoSubvol when vacant)
    defaultSub,         \* the filesystem's default subvolume
    snapshot_dir,       \* getNextSnapshotNumber: what os.listdir returned
    subvol_main_snapshot_number, \* main: the allocated number, a string
    fsops,              \* history: the filesystem mutations performed
    log,                \* history: the messages logged
    errors,             \* history: the exceptions raised, with their step
    pre,                \* history: the filesystem as it was before the run
    call,               \* which call of mount_subvol_id5 this is
    allocated           \* history: per earlier run, the number it took (<<>>: none)

vars == <<dry_run, confirmation, snap_id, pc, exit_status, mp, snapshots_exists, dirs, descs,
          subAt, mainAt, defaultSub, snapshot_dir, subvol_main_snapshot_number,
          fsops, log, errors, pre, call, allocated>>

fs == <<mp, dirs, descs, subAt, mainAt, defaultSub>>

----------------------------------------------------------------------------
(* Bounds and input universes *)

\* Most directories the snapshots subvolume holds before the run.
MaxEntries == 2

\* Directory names are strings, modelled as sequences of characters.
NAMES == { <<"1">>, <<"2">>, <<"9">>, <<"1", "0">>, <<"a">> }

\* Most runs of the script, one after the other.
MaxRuns == 2

\* The snapshot ids the operator may pass.
SNAP_IDS == { <<"1">>, <<"2">> }

----------------------------------------------------------------------------
(* Strings and integers: int() and str() *)

DigitChars == <<"0", "1", "2", "3", "4", "5", "6", "7", "8", "9">>

IsDigit(c) == \E i \in 1..10 : DigitChars[i] = c

DigitValue(c) == (CHOOSE i \in 1..10 : DigitChars[i] = c) - 1

\* int(name) succeeds: a non-empty run of decimal digits. (int() also takes a
\* sign, surrounding blanks and underscores; NAMES holds no such name.)
IsInt(name) == Len(name) >= 1 /\ \A i \in 1..Len(name) : IsDigit(name[i])

RECURSIVE ParseInt(_)
ParseInt(name) ==
    IF Len(name) = 0 THEN 0
    ELSE 10 * ParseInt(SubSeq(name, 1, Len(name) - 1)) + DigitValue(name[Len(name)])

RECURSIVE Str(_)
Str(n) ==
    IF n < 10 THEN <<DigitChars[n + 1]>>
    ELSE Str(n \div 10) \o <<DigitChars[(n % 10) + 1]>>

----------------------------------------------------------------------------
(* Subvolumes *)

NoSubvol == [kind |-> "none", of |-> <<>>]
TopLevel == [kind |-> "toplevel", of |-> <<>>]
OrigMain == [kind |-> "main", of |-> <<>>]
Snap(n) == [kind |-> "snap", of |-> n]
\* btrfsutil.create_snapshot(source path snapshots/<s>/snapshot, ...)
SnapshotOf(s) == [kind |-> "snapshot_of", of |-> s]

\* An info.xml written by snapper itself.
SnapperInfo(n) == [type |-> "single", num |-> n, description |-> <<>>, cleanup |-> "number"]

\* Mutant: the number and the source id exchanged.
RollbackInfoSwapped(num, src_id) ==
    [type |-> "single", num |-> src_id, description |-> num, cleanup |-> "number"]

\* info.xml as generateXML builds it.
RollbackInfo(num, src_id) ==
    [type |-> "single", num |-> num, description |-> src_id, cleanup |-> "number"]

Put(f, k, v) == [x \in DOMAIN f \cup {k} |-> IF x = k THEN v ELSE f[x]]
Drop(f, k) == [x \in DOMAIN f \ {k} |-> f[x]]

----------------------------------------------------------------------------
(* getNextSnapshotNumber *)

Diverges == <<"<loops forever>">>

\* Mutant: the listing is indexed from its front (offset instead of -offset).
RECURSIVE ScanLoopFromFront(_, _, _)
ScanLoopFromFront(listing, snap_id_offset, snapshot_dir_length) ==
    LET inRange == snap_id_offset <= Len(listing)
        entry == listing[snap_id_offset]
    IN  IF inRange /\ IsInt(entry)
        THEN IF snapshot_dir_length = 0 THEN <<"1">>
             ELSE Str(ParseInt(entry) + 1)
        ELSE IF snapshot_dir_length - 1 = 0 THEN <<"1">>
             ELSE IF ~inRange /\ snapshot_dir_length - 1 < 0 THEN Diverges
             ELSE ScanLoopFromFront(listing, snap_id_offset + 1, snapshot_dir_length - 1)

\* One evaluation of the while loop's body and those after it, from the values
\* snap_id_offset and snapshot_dir_length have on entry.
RECURSIVE ScanLoop(_, _, _)
ScanLoop(listing, snap_id_offset, snapshot_dir_length) ==
    LET inRange == snap_id_offset <= Len(listing)   \* else IndexError
        entry == listing[Len(listing) + 1 - snap_id_offset]
    IN  IF inRange /\ IsInt(entry)
        THEN IF snapshot_dir_length = 0 THEN <<"1">>
             ELSE Str(ParseInt(entry) + 1)
        ELSE IF snapshot_dir_length - 1 = 0 THEN <<"1">>
             \* Past the front of the list every index raises, and the length
             \* counter, already negative, only falls: it never meets 0 again.
             ELSE IF ~inRange /\ snapshot_dir_length - 1 < 0 THEN Diverges
             ELSE ScanLoop(listing, snap_id_offset + 1, snapshot_dir_length - 1)

getNextSnapshotNumber(listing) == ScanLoop(listing, 1, Len(listing))

\* The orders os.listdir may return a directory's entries in.
Listings(S) ==
    { l \in [1..Cardinality(S) -> S] : \A i, j \in 1..Cardinality(S) : i # j => l[i] # l[j] }

----------------------------------------------------------------------------
(* The initial state: the arguments and the filesystem before the run *)

Init ==
    /\ dry_run \in BOOLEAN
    /\ snap_id \in SNAP_IDS
    /\ confirmation = ""
    /\ pc = "confirm"
    /\ exit_status = -1
    /\ mp \in {"absent", "dir", "mounted"}
    /\ snapshots_exists \in BOOLEAN
    /\ dirs \in { D \in SUBSET NAMES : /\ Cardinality(D) <= MaxEntries
                                       /\ (~snapshots_exists => D = {}) }
    /\ descs = [n \in dirs |-> SnapperInfo(n)]
    /\ subAt = [n \in dirs |-> Snap(n)]
    /\ mainAt \in {OrigMain, NoSubvol}
    /\ defaultSub \in (IF mainAt = OrigMain THEN {OrigMain, TopLevel} ELSE {TopLevel})
    /\ snapshot_dir = <<>>
    /\ subvol_main_snapshot_number = <<>>
    /\ fsops = <<>>
    /\ log = <<>>
    /\ errors = <<>>
    /\ pre = [mp |-> mp, dirs |-> dirs, descs |-> descs, subAt |-> subAt,
              mainAt |-> mainAt, defaultSub |-> defaultSub,
              nops |-> 0, nlog |-> 0, nerr |-> 0]
    /\ call = 1
    /\ allocated = <<>>

----------------------------------------------------------------------------
(* main *)

locals == <<snapshot_dir, subvol_main_snapshot_number>>
args == <<dry_run, snap_id, snapshots_exists, pre, call, allocated>>

Op(op, dir) == [op |-> op, dir |-> dir]
\* An exception, the step that raised it, and whether the main path was vacant then.
Exc(step, exc) == [step |-> step, exc |-> exc, vacant |-> (mainAt = NoSubvol)]

\* The exit status of a run an exception ends: main catches PermissionError and
\* calls exit(1); any other exception is uncaught, and the interpreter exits 1.
ExceptionExitStatus(exc) == 1

\* An exception leaves main's try block: messages logged on the way, then exit.
MainExcept(step, exc, msgs) ==
    /\ errors' = Append(errors, Exc(step, exc))
    /\ log' = log \o msgs \o (IF exc = "PermissionError" THEN <<"Permission denied">> ELSE <<>>)
    /\ pc' = "exit"
    /\ exit_status' = ExceptionExitStatus(exc)

\* main returns: the process ends with status 0.
ReturnExitStatus == 0

CONFIRM == "CONFIRM"

\* The exit status main gives sys.exit after a bad confirmation.
BadConfirmationExitStatus == 0

\* Mutant: a bad confirmation is logged but sys.exit is not called.
ConfirmNoExit ==
    /\ pc = "confirm"
    /\ \/ \E typed \in {CONFIRM, "confirm", "no"} :
            /\ confirmation' = typed
            /\ log' = IF typed # CONFIRM THEN Append(log, "Bad confirmation, exiting...") ELSE log
            /\ pc' = "ensure_dir"
            /\ UNCHANGED <<errors, exit_status>>
       \/ /\ errors' = Append(errors, Exc("confirm", "KeyboardInterrupt"))
          /\ pc' = "exit"
          /\ exit_status' = 1
          /\ UNCHANGED <<confirmation, log>>
    /\ UNCHANGED <<args, fs, locals, fsops>>

\* Lines 225-234: the confirmation prompt.
Confirm ==
    /\ pc = "confirm"
    /\ \/ \E typed \in {CONFIRM, "confirm", "no"} :
            /\ confirmation' = typed
            /\ IF typed # CONFIRM
               THEN /\ log' = Append(log, "Bad confirmation, exiting...")
                    /\ pc' = "exit"
                    /\ exit_status' = BadConfirmationExitStatus
               ELSE /\ pc' = "ensure_dir"
                    /\ UNCHANGED <<log, exit_status>>
            /\ UNCHANGED errors
       \/ \* KeyboardInterrupt at the prompt: sys.exit(1)
          /\ errors' = Append(errors, Exc("confirm", "KeyboardInterrupt"))
          /\ pc' = "exit"
          /\ exit_status' = 1
          /\ UNCHANGED <<confirmation, log>>
    /\ UNCHANGED <<args, fs, locals, fsops>>

\* mount_subvol_id5, line 133: ensure_dir(mountpoint).
EnsureMountpoint ==
    /\ pc = "ensure_dir"
    /\ IF mp # "absent"
       THEN /\ pc' = "mount"
            /\ UNCHANGED <<fs, fsops, log, errors, exit_status>>
       ELSE IF dry_run
       THEN /\ log' = Append(log, "mkdir -p mountpoint")
            /\ pc' = "mount"
            /\ UNCHANGED <<fs, fsops, errors, exit_status>>
       ELSE \E r \in {"ok", "PermissionError", "OSError"} :
            IF r = "ok"
            THEN /\ mp' = "dir"
                 /\ fsops' = Append(fsops, Op("makedirs", <<>>))
                 /\ pc' = "mount"
                 /\ UNCHANGED <<dirs, descs, subAt, mainAt, defaultSub, log, errors, exit_status>>
            ELSE /\ MainExcept("ensure_dir", r, <<"error creating dir">>)
                 /\ UNCHANGED <<fs, fsops>>
    /\ UNCHANGED <<args, confirmation, locals>>

\* Mutant: the mount command is run without the os.path.ismount test.
MountAlways ==
    /\ pc = "mount"
    /\ IF dry_run
       THEN /\ log' = Append(log, "mount -o subvolid=5")
            /\ pc' = "getNextSnapshotNumber"
            /\ UNCHANGED <<fs, fsops, errors, exit_status>>
       ELSE \E ret \in {0, 32} :
            IF ret = 0
            THEN /\ mp' = "mounted"
                 /\ fsops' = Append(fsops, Op("mount", <<>>))
                 /\ pc' = "getNextSnapshotNumber"
                 /\ UNCHANGED <<dirs, descs, subAt, mainAt, defaultSub, log, errors, exit_status>>
            ELSE /\ MainExcept("mount", "OSError", <<>>)
                 /\ UNCHANGED <<fs, fsops>>
    /\ UNCHANGED <<args, confirmation, locals>>

\* mount_subvol_id5, lines 135-143: mount the top-level subvolume.
Mount ==
    /\ pc = "mount"
    /\ IF mp = "mounted"
       THEN /\ pc' = "getNextSnapshotNumber"
            /\ UNCHANGED <<fs, fsops, log, errors, exit_status>>
       ELSE IF dry_run
       THEN /\ log' = Append(log, "mount -o subvolid=5")
            /\ pc' = "getNextSnapshotNumber"
            /\ UNCHANGED <<fs, fsops, errors, exit_status>>
       ELSE \E ret \in {0, 32} :
            IF ret = 0
            THEN /\ mp' = "mounted"
                 /\ fsops' = Append(fsops, Op("mount", <<>>))
                 /\ pc' = "getNextSnapshotNumber"
                 /\ UNCHANGED <<dirs, descs, subAt, mainAt, defaultSub, log, errors, exit_status>>
            ELSE /\ MainExcept("mount", "OSError", <<>>)
                 /\ UNCHANGED <<fs, fsops>>
    /\ UNCHANGED <<args, confirmation, locals>>

\* Line 238: getNextSnapshotNumber().
Allocate ==
    /\ pc = "getNextSnapshotNumber"
    /\ IF ~snapshots_exists
       THEN /\ MainExcept("getNextSnapshotNumber", "FileNotFoundError", <<>>)
            /\ UNCHANGED locals
       ELSE \E r \in {"ok", "PermissionError"} :
            IF r # "ok"
            THEN /\ MainExcept("getNextSnapshotNumber", r, <<>>)
                 /\ UNCHANGED locals
            ELSE \E listing \in Listings(dirs) :
                 LET n == getNextSnapshotNumber(listing)
                 IN  /\ snapshot_dir' = listing
                     /\ subvol_main_snapshot_number' = n
                     /\ pc' = IF n = Diverges THEN "loop" ELSE "createNextSubvolumeNumber"
                     /\ log' = IF n # Diverges /\ \A i \in 1..Len(listing) : ~IsInt(listing[i])
                               THEN Append(log, "No numbered snapshot ID exits, using 1 as the snapshot number")
                               ELSE log
                     /\ UNCHANGED <<errors, exit_status>>
    /\ UNCHANGED <<args, confirmation, fs, fsops>>

\* The while loop of getNextSnapshotNumber when it never exits.
LoopForever ==
    /\ pc = "loop"
    /\ UNCHANGED vars

\* Mutant: ensure_dir called without dry_run.
CreateNextSubvolumeNumberNoDryRun ==
    /\ pc = "createNextSubvolumeNumber"
    /\ LET n == subvol_main_snapshot_number
       IN  IF mp = "mounted" /\ n \in dirs
           THEN /\ pc' = "generateXML_read"
                /\ UNCHANGED <<fs, fsops, log, errors, exit_status>>
           ELSE \E r \in {"ok", "PermissionError", "OSError"} :
                IF r = "ok"
                THEN /\ dirs' = dirs \cup {n}
                     /\ fsops' = Append(fsops, Op("makedirs", n))
                     /\ pc' = "generateXML_read"
                     /\ UNCHANGED <<mp, descs, subAt, mainAt, defaultSub, log, errors, exit_status>>
                ELSE /\ MainExcept("createNextSubvolumeNumber", r, <<"error creating dir">>)
                     /\ UNCHANGED <<fs, fsops>>
    /\ UNCHANGED <<args, confirmation, locals>>

\* Line 245: createNextSubvolumeNumber -> ensure_dir(snapshots/<number>).
CreateNextSubvolumeNumber ==
    /\ pc = "createNextSubvolumeNumber"
    /\ LET n == subvol_main_snapshot_number
       IN  IF mp = "mounted" /\ n \in dirs
           THEN /\ pc' = "generateXML_read"
                /\ UNCHANGED <<fs, fsops, log, errors, exit_status>>
           ELSE IF dry_run
           THEN /\ log' = Append(log, "mkdir -p snapshots/<number>")
                /\ pc' = "generateXML_read"
                /\ UNCHANGED <<fs, fsops, errors, exit_status>>
           ELSE \E r \in {"ok", "PermissionError", "OSError"} :
                IF r = "ok"
                THEN /\ dirs' = dirs \cup {n}
                     /\ fsops' = Append(fsops, Op("makedirs", n))
                     /\ pc' = "generateXML_read"
                     /\ UNCHANGED <<mp, descs, subAt, mainAt, defaultSub, log, errors, exit_status>>
                ELSE /\ MainExcept("createNextSubvolumeNumber", r, <<"error creating dir">>)
                     /\ UNCHANGED <<fs, fsops>>
    /\ UNCHANGED <<args, confirmation, locals>>

\* generateXML, lines 59-66: read the source snapshot's info.xml.
GenerateXMLRead ==
    /\ pc = "generateXML_read"
    /\ IF snap_id \notin DOMAIN descs
       THEN MainExcept("generateXML_read", "FileNotFoundError", <<>>)
       ELSE \E r \in {"ok", "PermissionError", "ExpatError"} :
            IF r = "ok"
            THEN /\ pc' = "generateXML_write"
                 /\ UNCHANGED <<log, errors, exit_status>>
            ELSE MainExcept("generateXML_read", r, <<>>)
    /\ UNCHANGED <<args, confirmation, locals, fs, fsops>>

\* Mutant: a failed write is swallowed and the run goes on.
GenerateXMLWriteSwallows ==
    /\ pc = "generateXML_write"
    /\ LET n == subvol_main_snapshot_number
       IN  IF dry_run
           THEN /\ log' = Append(log, "Writing info.xml")
                /\ pc' = "rename"
                /\ UNCHANGED <<fs, fsops, errors, exit_status>>
           ELSE \E r \in {"ok", "PermissionError", "OSError"} :
                IF r = "ok"
                THEN /\ descs' = Put(descs, n, RollbackInfo(n, snap_id))
                     /\ fsops' = Append(fsops, Op("write_info", n))
                     /\ pc' = "rename"
                     /\ UNCHANGED <<mp, dirs, subAt, mainAt, defaultSub, log, errors, exit_status>>
                ELSE /\ errors' = Append(errors, Exc("generateXML_write", r))
                     /\ pc' = "rename"
                     /\ UNCHANGED <<fs, fsops, log, exit_status>>
    /\ UNCHANGED <<args, confirmation, locals>>

\* generateXML, lines 68-106: build the new info.xml and write it.
GenerateXMLWrite ==
    /\ pc = "generateXML_write"
    /\ LET n == subvol_main_snapshot_number
       IN  IF dry_run
           THEN /\ log' = Append(log, "Writing info.xml")
                /\ pc' = "rename"
                /\ UNCHANGED <<fs, fsops, errors, exit_status>>
           ELSE \E r \in {"ok", "PermissionError", "OSError"} :
                IF r = "ok"
                THEN /\ descs' = Put(descs, n, RollbackInfo(n, snap_id))
                     /\ fsops' = Append(fsops, Op("write_info", n))
                     /\ pc' = "rename"
                     /\ UNCHANGED <<mp, dirs, subAt, mainAt, defaultSub, log, errors, exit_status>>
                ELSE /\ MainExcept("generateXML_write", r, <<>>)
                     /\ UNCHANGED <<fs, fsops>>
    /\ UNCHANGED <<args, confirmation, locals>>

\* Mutant: FileNotFoundError is caught around os.rename alone and rollback
\* goes on to create the snapshot.
FileNotFoundHandlerContinues(step) ==
    /\ errors' = Append(errors, Exc(step, "FileNotFoundError"))
    /\ log' = Append(log, "Missing main: is dev mounted with the option subvolid=5?")
    /\ pc' = "create_snapshot"
    /\ UNCHANGED exit_status

\* rollback, lines 169-172: FileNotFoundError is logged and rollback returns.
FileNotFoundHandler(step) ==
    /\ errors' = Append(errors, Exc(step, "FileNotFoundError"))
    /\ log' = Append(log, "Missing main: is dev mounted with the option subvolid=5?")
    /\ pc' = "exit"
    /\ exit_status' = ReturnExitStatus

\* Mutant: the test of os.path.isdir(subvol_main) inverted.
BtrfsUtilErrorHandlerInverted(step) ==
    /\ errors' = Append(errors, Exc(step, "BtrfsUtilError"))
    /\ IF mainAt # NoSubvol
       THEN /\ log' = log \o <<"{e}", "Moving back">>
            /\ pc' = "restore"
            /\ UNCHANGED exit_status
       ELSE /\ log' = Append(log, "{e}")
            /\ pc' = "exit"
            /\ exit_status' = ReturnExitStatus

\* rollback, lines 173-182: BtrfsUtilError is logged; the old root is moved
\* back when nothing sits at the main path.
BtrfsUtilErrorHandler(step) ==
    /\ errors' = Append(errors, Exc(step, "BtrfsUtilError"))
    /\ IF mainAt = NoSubvol
       THEN /\ log' = log \o <<"{e}", "Moving back">>
            /\ pc' = "restore"
            /\ UNCHANGED exit_status
       ELSE /\ log' = Append(log, "{e}")
            /\ pc' = "exit"
            /\ exit_status' = ReturnExitStatus

\* Mutant: the main subvolume is moved to another path than
\* snapshots/<number>/snapshot.
RenameWrongTarget ==
    /\ pc = "rename"
    /\ LET n == subvol_main_snapshot_number
       IN  IF dry_run
           THEN /\ log' = Append(log, "mv")
                /\ pc' = "create_snapshot"
                /\ UNCHANGED <<fs, fsops, errors, exit_status>>
           ELSE IF mainAt = NoSubvol
           THEN /\ FileNotFoundHandler("rename")
                /\ UNCHANGED <<fs, fsops>>
           ELSE \E r \in {"ok", "PermissionError", "OSError"} :
                IF r = "ok"
                THEN /\ mainAt' = NoSubvol
                     /\ fsops' = Append(fsops, Op("rename", n))
                     /\ pc' = "create_snapshot"
                     /\ UNCHANGED <<mp, dirs, descs, subAt, defaultSub, log, errors, exit_status>>
                ELSE /\ MainExcept("rename", r, <<>>)
                     /\ UNCHANGED <<fs, fsops>>
    /\ UNCHANGED <<args, confirmation, locals>>

\* rollback, lines 153 and 161: os.rename(subvol_main, subvol_main_newname).
Rename ==
    /\ pc = "rename"
    /\ LET n == subvol_main_snapshot_number
       IN  IF dry_run
           THEN /\ log' = Append(log, "mv")
                /\ pc' = "create_snapshot"
                /\ UNCHANGED <<fs, fsops, errors, exit_status>>
           ELSE IF mainAt = NoSubvol
           THEN /\ FileNotFoundHandler("rename")
                /\ UNCHANGED <<fs, fsops>>
           ELSE IF n \in DOMAIN subAt
           THEN \* the new name is a subvolume that is not empty: ENOTEMPTY
                /\ MainExcept("rename", "OSError", <<>>)
                /\ UNCHANGED <<fs, fsops>>
           ELSE \E r \in {"ok", "PermissionError", "OSError"} :
                IF r = "ok"
                THEN /\ subAt' = Put(subAt, n, mainAt)
                     /\ mainAt' = NoSubvol
                     /\ fsops' = Append(fsops, Op("rename", n))
                     /\ pc' = "create_snapshot"
                     /\ UNCHANGED <<mp, dirs, descs, defaultSub, log, errors, exit_status>>
                ELSE /\ MainExcept("rename", r, <<>>)
                     /\ UNCHANGED <<fs, fsops>>
    /\ UNCHANGED <<args, confirmation, locals>>

\* Mutant: a failed create_snapshot is logged and rollback goes on to set-default.
CreateSnapshotContinues ==
    /\ pc = "create_snapshot"
    /\ IF dry_run
       THEN /\ log' = Append(log, "btrfs subvolume snapshot")
            /\ pc' = "set_default_subvolume"
            /\ UNCHANGED <<fs, fsops, errors, exit_status>>
       ELSE \E r \in {"ok", "BtrfsUtilError"} :
            IF r = "ok" /\ snap_id \in DOMAIN subAt /\ mainAt = NoSubvol
            THEN /\ mainAt' = SnapshotOf(snap_id)
                 /\ fsops' = Append(fsops, Op("create_snapshot", snap_id))
                 /\ pc' = "set_default_subvolume"
                 /\ UNCHANGED <<mp, dirs, descs, subAt, defaultSub, log, errors, exit_status>>
            ELSE /\ errors' = Append(errors, Exc("create_snapshot", "BtrfsUtilError"))
                 /\ log' = Append(log, "{e}")
                 /\ pc' = "set_default_subvolume"
                 /\ UNCHANGED <<fs, fsops, exit_status>>
    /\ UNCHANGED <<args, confirmation, locals>>

\* rollback, lines 154-158 and 162: create_snapshot(subvol_rollback_src, subvol_main).
CreateSnapshot ==
    /\ pc = "create_snapshot"
    /\ IF dry_run
       THEN /\ log' = Append(log, "btrfs subvolume snapshot")
            /\ pc' = "set_default_subvolume"
            /\ UNCHANGED <<fs, fsops, errors, exit_status>>
       ELSE \E r \in {"ok", "BtrfsUtilError"} :
            IF r = "ok" /\ snap_id \in DOMAIN subAt /\ mainAt = NoSubvol
            THEN /\ mainAt' = SnapshotOf(snap_id)
                 /\ fsops' = Append(fsops, Op("create_snapshot", snap_id))
                 /\ pc' = "set_default_subvolume"
                 /\ UNCHANGED <<mp, dirs, descs, subAt, defaultSub, log, errors, exit_status>>
            ELSE /\ BtrfsUtilErrorHandler("create_snapshot")
                 /\ UNCHANGED <<fs, fsops>>
    /\ UNCHANGED <<args, confirmation, locals>>

\* The message of lines 164-168.
Complete == IF dry_run THEN "[DRY-RUN MODE] Rollback complete. Reboot to finish"
            ELSE "FalseRollback complete. Reboot to finish"

\* rollback, lines 159 and 163-168: set_default_subvolume(subvol_main), then
\* the closing message.
SetDefault ==
    /\ pc = "set_default_subvolume"
    /\ IF dry_run
       THEN /\ log' = log \o <<"btrfs subvolume set-default", Complete>>
            /\ pc' = "exit"
            /\ exit_status' = ReturnExitStatus
            /\ UNCHANGED <<fs, fsops, errors>>
       ELSE \E r \in {"ok", "BtrfsUtilError"} :
            IF r = "ok"
            THEN /\ defaultSub' = mainAt
                 /\ fsops' = Append(fsops, Op("set_default_subvolume", <<>>))
                 /\ log' = Append(log, Complete)
                 /\ pc' = "exit"
                 /\ exit_status' = ReturnExitStatus
                 /\ UNCHANGED <<mp, dirs, descs, subAt, mainAt, errors>>
            ELSE /\ BtrfsUtilErrorHandler("set_default_subvolume")
                 /\ UNCHANGED <<fs, fsops>>
    /\ UNCHANGED <<args, confirmation, locals>>

\* rollback, lines 179-182: os.rename(subvol_main_newname, subvol_main).
Restore ==
    /\ pc = "restore"
    /\ LET n == subvol_main_snapshot_number
       IN  IF dry_run
           THEN /\ log' = Append(log, "mv")
                /\ pc' = "exit"
                /\ exit_status' = ReturnExitStatus
                /\ UNCHANGED <<fs, fsops, errors>>
           ELSE \E r \in {"ok", "PermissionError", "OSError"} :
                IF r = "ok"
                THEN /\ mainAt' = subAt[n]
                     /\ subAt' = Drop(subAt, n)
                     /\ fsops' = Append(fsops, Op("rename_back", n))
                     /\ pc' = "exit"
                     /\ exit_status' = ReturnExitStatus
                     /\ UNCHANGED <<mp, dirs, descs, defaultSub, log, errors>>
                ELSE /\ MainExcept("restore", r, <<>>)
                     /\ UNCHANGED <<fs, fsops>>
    /\ UNCHANGED <<args, confirmation, locals>>

Next ==
    \/ Confirm
    \/ EnsureMountpoint
    \/ Mount
    \/ Allocate
    \/ LoopForever
    \/ CreateNextSubvolumeNumber
    \/ GenerateXMLRead
    \/ GenerateXMLWrite
    \/ Rename
    \/ CreateSnapshot
    \/ SetDefault
    \/ Restore

Spec == Init /\ [][Next]_vars

----------------------------------------------------------------------------
(* mount_subvol_id5 called twice in a row *)

\* The filesystem and the lengths of the histories, as they are now.
Snapshot ==
    [mp |-> mp, dirs |-> dirs, descs |-> descs, subAt |-> subAt,
     mainAt |-> mainAt, defaultSub |-> defaultSub,
     nops |-> Len(fsops), nlog |-> Len(log), nerr |-> Len(errors)]

\* mount_subvol_id5 has returned; it is called again with the same arguments.
MountAgain ==
    /\ pc = "getNextSnapshotNumber"
    /\ call = 1
    /\ call' = 2
    /\ pre' = Snapshot
    /\ pc' = "ensure_dir"
    /\ UNCHANGED <<dry_run, snap_id, snapshots_exists, allocated, confirmation,
                   exit_status, fs, locals, fsops, log, errors>>

NextMountTwice ==
    \/ Confirm
    \/ EnsureMountpoint
    \/ Mount
    \/ MountAgain

SpecMountTwice == Init /\ [][NextMountTwice]_vars

----------------------------------------------------------------------------
(* Several invocations, with snapshot directories deleted in between *)

\* The run put its number into use: it wrote snapshots/<number>/info.xml.
TookNumber ==
    /\ subvol_main_snapshot_number # <<>>
    /\ \E i \in 1..Len(fsops) :
          fsops[i] = Op("write_info", subvol_main_snapshot_number)

\* The process has ended and the script is invoked again.
NextRun ==
    /\ pc = "exit"
    /\ Len(allocated) + 1 < MaxRuns
    /\ allocated' = Append(allocated, IF TookNumber THEN subvol_main_snapshot_number
                                      ELSE <<>>)
    /\ dry_run' \in BOOLEAN
    /\ snap_id' \in SNAP_IDS
    /\ confirmation' = ""
    /\ pc' = "confirm"
    /\ exit_status' = -1
    /\ snapshot_dir' = <<>>
    /\ subvol_main_snapshot_number' = <<>>
    /\ fsops' = <<>>
    /\ log' = <<>>
    /\ errors' = <<>>
    /\ pre' = [Snapshot EXCEPT !.nops = 0, !.nlog = 0, !.nerr = 0]
    /\ call' = 1
    /\ UNCHANGED <<snapshots_exists, fs>>

\* Between two runs a snapshot directory is deleted (snapper delete, rm).
ExternalDelete ==
    /\ pc = "exit"
    /\ \E d \in dirs :
          /\ dirs' = dirs \ {d}
          /\ descs' = Drop(descs, d)
          /\ subAt' = Drop(subAt, d)
    /\ UNCHANGED <<args, confirmation, pc, exit_status, mp, mainAt, defaultSub,
                   locals, fsops, log, errors>>

NextRuns ==
    \/ Next
    \/ NextRun
    \/ ExternalDelete

SpecRuns == Init /\ [][NextRuns]_vars

----------------------------------------------------------------------------
(* Vocabulary of the properties *)

Done == pc = "exit"
Confirmed == confirmation = CONFIRM
HasOp(o) == \E i \in 1..Len(fsops) : fsops[i].op = o
Logged(m) == \E i \in 1..Len(log) : log[i] = m
Raised(step, exc) == \E i \in 1..Len(errors) : errors[i].step = step /\ errors[i].exc = exc
RaisedAt(step) == \E i \in 1..Len(errors) : errors[i].step = step
Allocated == subvol_main_snapshot_number # <<>> /\ subvol_main_snapshot_number # Diverges
NewId == subvol_main_snapshot_number

\* The terminal success state: all three repositioning steps were performed.
Committed ==
    Done /\ HasOp("rename") /\ HasOp("create_snapshot") /\ HasOp("set_default_subvolume")

FsUnchanged ==
    /\ mp = pre.mp /\ dirs = pre.dirs /\ descs = pre.descs
    /\ subAt = pre.subAt /\ mainAt = pre.mainAt /\ defaultSub = pre.defaultSub

SubvolumesUnchanged ==
    mainAt = pre.mainAt /\ subAt = pre.subAt /\ defaultSub = pre.defaultSub

MainWasDefault == pre.mainAt = OrigMain /\ pre.defaultSub = OrigMain

FullyRolledBack ==
    /\ mainAt = SnapshotOf(snap_id)
    /\ defaultSub = mainAt
    /\ NewId \in DOMAIN subAt /\ subAt[NewId] = OrigMain

LayoutUnchanged ==
    /\ mainAt = OrigMain
    /\ defaultSub = OrigMain
    /\ NewId \notin DOMAIN subAt

IntEntries(l) == { ParseInt(l[i]) : i \in { j \in 1..Len(l) : IsInt(l[j]) } }
Max(S) == CHOOSE m \in S : \A x \in S : x <= m

----------------------------------------------------------------------------
(* C1 *)

\* C1: a run started with the default subvolume at the main path, in which at
\* most one step failed, ends either fully rolled back or with the layout
\* unchanged. (Stated for the runs whose allocated number names a new
\* directory, so that the rollback-target path is free before the run.)
C1_TwoTerminalLayouts ==
    (Done /\ Confirmed /\ MainWasDefault /\ Len(errors) <= 1
          /\ NewId \notin pre.dirs)
        => (FullyRolledBack \/ LayoutUnchanged)

----------------------------------------------------------------------------
(* C2 *)

\* C2: at the end of a run started with the default subvolume at the main
\* path, whatever occupies the main path is the default subvolume.
C2_MainIsDefault ==
    (Done /\ Confirmed /\ MainWasDefault /\ mainAt # NoSubvol) => defaultSub = mainAt

----------------------------------------------------------------------------
(* C3 *)

\* C3: after a committed run the new directory holds a descriptor whose number
\* is the directory's name and whose description names the source; the main
\* path holds a snapshot of the source; the original main subvolume is at
\* snapshots/<n>/snapshot; the default subvolume is the one at the main path.
C3_CommittedLayout ==
    Committed =>
        /\ NewId \in DOMAIN descs
        /\ descs[NewId].num = NewId
        /\ descs[NewId].description = snap_id
        /\ mainAt = SnapshotOf(snap_id)
        /\ NewId \in DOMAIN subAt /\ subAt[NewId] = pre.mainAt
        /\ pre.mainAt = OrigMain
        /\ defaultSub = mainAt

C3_Witness == Committed /\ NewId = <<"1", "0">> /\ snap_id = <<"2">>

----------------------------------------------------------------------------
(* C4 *)

BtrfsErrorWhileVacant ==
    \E i \in 1..Len(errors) : errors[i].exc = "BtrfsUtilError" /\ errors[i].vacant

\* C4: when a btrfs error follows a successful rename (a) while the main path
\* is vacant, the subvolume at the rollback-target path is renamed back; once
\* that rename is done the main path holds the original main subvolume and
\* the rollback-target path holds nothing.
C4_Compensation ==
    (Done /\ HasOp("rename") /\ BtrfsErrorWhileVacant /\ ~RaisedAt("restore"))
        => /\ HasOp("rename_back")
           /\ mainAt = OrigMain /\ mainAt = pre.mainAt
           /\ NewId \notin DOMAIN subAt

C4_Witness ==
    Done /\ HasOp("rename") /\ Raised("create_snapshot", "BtrfsUtilError")
         /\ HasOp("rename_back")

----------------------------------------------------------------------------
(* C5 *)

PreconditionSteps ==
    {"ensure_dir", "mount", "getNextSnapshotNumber", "createNextSubvolumeNumber",
     "generateXML_read", "generateXML_write"}

PreconditionFailed == \E i \in 1..Len(errors) : errors[i].step \in PreconditionSteps

\* C5: when the mount, the allocator, the creation of the new directory or the
\* reading or writing of a descriptor fails, no subvolume operation is ever
\* executed: the main path, the snapshot subvolumes and the default
\* subvolume are as before the run.
C5_NoMutationOnPreconditionFailure ==
    PreconditionFailed =>
        /\ Done
        /\ SubvolumesUnchanged
        /\ ~HasOp("rename") /\ ~HasOp("create_snapshot")
        /\ ~HasOp("set_default_subvolume") /\ ~HasOp("rename_back")

C5_Witness ==
    Done /\ ~dry_run /\ Raised("generateXML_write", "OSError") /\ HasOp("makedirs")

----------------------------------------------------------------------------
(* C6 *)

\* C6: a dry run changes nothing in the filesystem, and a dry run that has
\* passed a mutating step has logged that step's description instead.
C6_DryRunMutatesNothing ==
    dry_run =>
        /\ fsops = <<>>
        /\ FsUnchanged
        /\ (Done /\ Logged(Complete)) =>
              /\ (pre.mp = "absent" => Logged("mkdir -p mountpoint"))
              /\ (pre.mp # "mounted" => Logged("mount -o subvolid=5"))
              /\ ((pre.mp # "mounted" \/ NewId \notin pre.dirs) => Logged("mkdir -p snapshots/<number>"))
              /\ Logged("Writing info.xml")
              /\ Logged("mv")
              /\ Logged("btrfs subvolume snapshot")
              /\ Logged("btrfs subvolume set-default")

C6_Witness == dry_run /\ Done /\ Logged(Complete) /\ pre.mp = "absent"

----------------------------------------------------------------------------
(* C7 *)

\* C7: as long as the operator has not typed the confirmation string, the
\* run has performed no filesystem action, and it never performs one after
\* another input or an interrupt.
C7_ConfirmationGate ==
    ~Confirmed => (fsops = <<>> /\ FsUnchanged /\ pc \in {"confirm", "exit"})

C7_Witness == Done /\ confirmation = "confirm"

----------------------------------------------------------------------------
(* C8 *)

\* C8: a run ended by a missing main path at rename (a), by a failed mount or
\* by a permission error exits non-zero; a committed run exits zero.
C8_ExitStatus ==
    Done =>
        /\ ( \/ Raised("rename", "FileNotFoundError")
             \/ RaisedAt("mount")
             \/ \E i \in 1..Len(errors) : errors[i].exc = "PermissionError" )
           => exit_status # 0
        /\ Committed => exit_status = 0

----------------------------------------------------------------------------
(* C9 *)

\* C9: when the operator declines the confirmation the process exits non-zero.
C9_DeclinedExitsNonZero ==
    (Done /\ confirmation # "" /\ ~Confirmed) => exit_status # 0

----------------------------------------------------------------------------
(* C10 *)

\* C10: for a listing, in any order, with at least one integer-named entry,
\* the allocator returns the greatest of them plus one.
C10_AllocatorReturnsMaxPlusOne ==
    (subvol_main_snapshot_number # <<>> /\ IntEntries(snapshot_dir) # {})
        => subvol_main_snapshot_number = Str(Max(IntEntries(snapshot_dir)) + 1)

----------------------------------------------------------------------------
(* C11 *)

\* C11: the allocator's loop ends for every listing, and for the empty
\* listing it returns 1.
C11_AllocatorTerminates ==
    /\ pc # "loop"
    /\ subvol_main_snapshot_number # Diverges
    /\ (pc = "createNextSubvolumeNumber" /\ snapshot_dir = <<>>)
          => subvol_main_snapshot_number = <<"1">>

----------------------------------------------------------------------------
(* C12 *)

\* C12: the allocated number is a positive integer that names no directory
\* present before the run, so no descriptor present before the run is
\* overwritten and the main subvolume is not renamed into an old directory.
C12_FreshIdentifier ==
    Allocated =>
        /\ IsInt(NewId) /\ ParseInt(NewId) >= 1
        /\ NewId \notin pre.dirs
        /\ \A d \in DOMAIN pre.descs : d \in DOMAIN descs /\ descs[d] = pre.descs[d]

----------------------------------------------------------------------------
(* C13 *)

\* C13: a second call of the volume precondition, made right after a first
\* call that left the target a mount point, raises nothing and changes
\* nothing: no directory is created and no mount command is run or logged.
C13_MountIdempotent ==
    (call = 2 /\ pre.mp = "mounted") =>
        /\ Len(errors) = pre.nerr
        /\ pc # "exit"
        /\ Len(fsops) = pre.nops
        /\ Len(log) = pre.nlog
        /\ FsUnchanged

C13_Witness ==
    call = 2 /\ pre.mp = "mounted" /\ pc = "getNextSnapshotNumber" /\ HasOp("mount")

----------------------------------------------------------------------------
(* C14 *)

OpIndex(o) == CHOOSE i \in 1..Len(fsops) : fsops[i].op = o
Before(a, b) == HasOp(a) /\ OpIndex(a) < OpIndex(b)
AttemptedOrDue(step) == pc = step \/ RaisedAt(step)

\* C14: in a real run the descriptor is written before rename (a), rename (a)
\* is done before snapshot-create (b) and (b) before set-default (c); (b) is
\* attempted only after (a) succeeded, with the main path vacant, and (c) only
\* after (b) succeeded.
C14_RepositioningOrder ==
    ~dry_run =>
        /\ HasOp("rename") => Before("write_info", "rename")
        /\ HasOp("create_snapshot") => Before("rename", "create_snapshot")
        /\ HasOp("set_default_subvolume") => Before("create_snapshot", "set_default_subvolume")
        /\ AttemptedOrDue("rename") => HasOp("write_info")
        /\ AttemptedOrDue("create_snapshot") => HasOp("rename")
        /\ pc = "create_snapshot" => mainAt = NoSubvol
        /\ Raised("create_snapshot", "BtrfsUtilError") => BtrfsErrorWhileVacant
        /\ AttemptedOrDue("set_default_subvolume") => HasOp("create_snapshot")

C14_Witness ==
    /\ ~dry_run /\ Done /\ Raised("set_default_subvolume", "BtrfsUtilError")
    /\ Before("write_info", "rename") /\ Before("rename", "create_snapshot")

----------------------------------------------------------------------------
(* C15 *)

OrigAtMain == mainAt = OrigMain
OrigAtTarget == Allocated /\ NewId \in DOMAIN subAt /\ subAt[NewId] = OrigMain

\* C15: in every state of a run started with the main path occupied, the
\* original main subvolume is at exactly one of the main path and the
\* rollback-target path snapshots/<number>/snapshot.
C15_OriginalMainKept ==
    pre.mainAt = OrigMain =>
        /\ OrigAtMain \/ OrigAtTarget
        /\ ~(OrigAtMain /\ OrigAtTarget)

C15_Witness == Done /\ RaisedAt("restore") /\ OrigAtTarget /\ mainAt = NoSubvol

----------------------------------------------------------------------------
(* C16 *)

MissingMain == Raised("rename", "FileNotFoundError")

\* C16: when rename (a) fails because the main path does not exist, the run
\* logs the diagnostic and ends: no compensating rename, no snapshot-create,
\* no set-default, and the subvolumes and the default are as they were.
C16_MissingMainEndsRun ==
    MissingMain =>
        /\ Done
        /\ Logged("Missing main: is dev mounted with the option subvolid=5?")
        /\ Len(errors) = 1
        /\ ~HasOp("rename") /\ ~HasOp("rename_back")
        /\ ~HasOp("create_snapshot") /\ ~HasOp("set_default_subvolume")
        /\ SubvolumesUnchanged

C16_Witness == MissingMain /\ Done /\ HasOp("write_info") /\ pre.mainAt = NoSubvol

----------------------------------------------------------------------------
(* C17 *)

IntPositions(l) == { i \in 1..Len(l) : IsInt(l[i]) }
LastParseable(l) == l[Max(IntPositions(l))]

\* C17: for a non-empty listing the allocator returns the value of the last
\* entry that parses as an integer, plus one, and 1 when no entry parses; when
\* it returns, the filesystem holds only what the mount step did before it.
C17_LastParseablePlusOne ==
    /\ (subvol_main_snapshot_number # <<>> /\ snapshot_dir # <<>>) =>
          subvol_main_snapshot_number =
              IF IntPositions(snapshot_dir) = {} THEN <<"1">>
              ELSE Str(ParseInt(LastParseable(snapshot_dir)) + 1)
    /\ pc = "createNextSubvolumeNumber" =>
          /\ dirs = pre.dirs /\ descs = pre.descs /\ SubvolumesUnchanged
          /\ \A i \in 1..Len(fsops) : fsops[i].op \in {"makedirs", "mount"} /\ fsops[i].dir = <<>>

C17_Witness ==
    /\ pc = "createNextSubvolumeNumber"
    /\ snapshot_dir = << <<"9">>, <<"a">> >>
    /\ subvol_main_snapshot_number = <<"1", "0">>

----------------------------------------------------------------------------
(* C18 *)

\* C18: a confirmed dry run raises no error, whatever the filesystem holds,
\* goes through every step and ends with the rollback-complete message.
C18_DryRunNeverRaises ==
    (dry_run /\ Confirmed) =>
        /\ errors = <<>>
        /\ pc # "loop"
        /\ Done => Logged(Complete)

----------------------------------------------------------------------------
(* C19 *)

\* os.listdir gave the greatest number last, as a sorted listing does.
GreatestLast ==
    IntPositions(snapshot_dir) # {} =>
        ParseInt(LastParseable(snapshot_dir)) = Max(IntEntries(snapshot_dir))

\* C19: over successive runs, with snapshot directories deleted in between,
\* a number a run took is never taken again by a later run, and the numbers
\* taken grow strictly from run to run. (Stated for the runs whose listing
\* has its greatest number last, where the allocator returns the maximum
\* plus one.)
C19_NoReuse ==
    (TookNumber /\ GreatestLast) =>
        \A i \in 1..Len(allocated) :
            allocated[i] # <<>> =>
                /\ allocated[i] # NewId
                /\ ParseInt(allocated[i]) < ParseInt(NewId)

====
